---------------------------- MODULE Spec2Model ----------------------------
(***************************************************************************)
(* ClaudeForge workflow orchestration: the six-phase engine run            *)
(* (agents.py run_workflow / execute_phase), the spec store (utils.py),    *)
(* the feature registry and the per-day feature counter (db.py) and the    *)
(* approve/reject endpoint (main.py approve_spec).                         *)
(*                                                                         *)
(* Python dicts, SQLite tables and the spec directory are functions whose  *)
(* domain is the set of keys present.  The logs table is a bag of rows     *)
(* (message, level): row ids and timestamps are not modelled.              *)
(***************************************************************************)
EXTENDS Integers, Sequences, FiniteSets, Bags, TLC

(* ------------------------------ bounds --------------------------------- *)

\* exceptions that may be raised in one run (executor, store or log write)
MaxFaults == 2

\* approve/reject requests the dashboard sends
MaxExt == 1

\* concurrent callers of get_next_feature_number
NumCallers == 3

\* calls of get_next_feature_number in all
MaxCalls == 4

\* calendar days the clock passes through
MaxDays == 2

\* direct calls of create_feature / update_feature_status
MaxRegCalls == 3

\* calls of generate_feat_id, one after another
MaxGen == 3

\* websocket_logs handlers (subscribers of the event bus)
NumSubs == 2

\* log_message calls on the event bus
MaxPublish == 2

\* WorkflowManager.start calls
MaxStarts == 3

\* direct calls of the spec store
MaxStoreCalls == 3

\* the last reading of the clock
MaxClock == 1

(* ----------------------------- constants ------------------------------- *)

\* models.py WorkflowPhase: requirements, design, tasks, implementation,
\* verification, review, in this order
NumPhases == 6

Phases == 1..NumPhases

REQUIREMENTS == 1

REVIEW == NumPhases

\* models.py PhaseStatus values
DRAFT == "draft"

PENDING_APPROVAL == "pending_approval"

APPROVED == "approved"

REJECTED == "rejected"

IN_PROGRESS == "in_progress"

COMPLETED == "completed"

PhaseStatus == {DRAFT, PENDING_APPROVAL, APPROVED, REJECTED, IN_PROGRESS, COMPLETED}

\* feature ids handed out by generate_feat_id; rows and files of distinct
\* features are keyed apart
Feats == {"FEAT-001"}

Days == 1..MaxDays

Callers == 1..NumCallers

Subscribers == 1..NumSubs

\* the feat_id arguments of WorkflowManager.start
ManagerFeats == {"FEAT-001", "FEAT-002"}

\* the phases, contents and dependency lists the spec store is called with;
\* the phases of StoreReadPhases outside StorePhases are never written
StorePhases == {1}

StoreReadPhases == {1, 2}

StoreContents == {"", "## Requirements"}

StoreDependencies == {<<>>, <<"FEAT-000">>}

\* the status, comment and user update_phase_status is called with: by
\* approve_spec for the two actions, by execute_phase
StoreUpdateArgs ==
    {[status |-> APPROVED, comment |-> "Looks good!", user |-> "dashboard"],
     [status |-> REJECTED, comment |-> "Needs work", user |-> "dashboard"],
     [status |-> COMPLETED, comment |-> "Auto-approved", user |-> "system"]}

\* two features whose workflows run at the same time
TwoFeats == {"FEAT-001", "FEAT-002"}

\* the feature ids and descriptions the registry is called with
RegistryFeats == {"FEAT-001", "FEAT-002"}

RegistryDescriptions == {"Add login", "Add logout"}

\* the messages and levels log_message is called with on the bus
BusMessages == {"m1"}

BusLevels == {"info", "error"}

(* None of Python, as a record so that it compares with records *)
None == [none |-> TRUE]

\* phase=None of update_feature_status
NoPhase == 0

VARIABLES
    features,        \* features table: feature_id -> [status, current_phase]
    specs,           \* phase-<phase>.yaml files: <<feat_id, phase>> -> SpecPhase
    logs,            \* logs table: feature_id -> bag of [message, level]
    log_queues,      \* agents.log_queues: feat_id -> queue contents
    workflows,       \* WorkflowManager._workflows: feat_id -> marker
    run,             \* the engine thread of a feature: position and locals
    req,             \* the approve_spec request being served, or None
    extLeft,         \* approve/reject requests still to come
    feature_counter, \* feature_counter table: date -> counter
    today,           \* the UTC date
    conn,            \* get_next_feature_number calls: position and locals
    db_lock,         \* the caller holding SQLite's write lock, or 0
    returned,        \* history: the numbers returned, per date, in return order
    overlapped,      \* history: some call began while another was in flight
    callsLeft,       \* calls still to come
    ret,             \* the last response of approve_spec / return value of a store call
    events,          \* history: feat_id -> the events published, in publish order
    queue_seq,       \* history: feat_id -> the publish numbers of the queue's items
    subs,            \* websocket_logs handlers: position and locals
    sent,            \* history: the events sent to subscribers, in send order
    dequeued,        \* history: feat_id -> the publish numbers taken off the queue
    pubLeft,         \* log_message calls still to come on the bus
    threads,         \* the threads WorkflowManager.start has started
    startsLeft,      \* WorkflowManager.start calls still to come
    now,             \* the reading of datetime.utcnow()
    storeLeft,       \* spec store calls still to come
    regLeft,         \* direct calls of the feature registry still to come
    gen,             \* the generate_feat_id call in progress: position and locals
    ids,             \* history: the identifiers generate_feat_id returned, in order
    idsLeft,         \* generate_feat_id calls still to come
    queue_objs,      \* the Queue objects created, in creation order: their items
    queue_ref,       \* agents.log_queues as references: feat_id -> Queue object
    parties          \* the threads calling get_log_queue: position and locals

pubVars == <<events, queue_seq>>

engineVars == <<features, specs, logs, log_queues, workflows, run, req, extLeft, ret, pubVars>>

counterVars == <<feature_counter, today, conn, db_lock, returned, overlapped, callsLeft>>

busVars == <<subs, sent, dequeued, pubLeft>>

managerVars == <<threads, startsLeft>>

storeVars == <<now, storeLeft>>

\* what the engine and the approve/reject endpoint leave alone
apiVars == <<regLeft, gen, ids, idsLeft>>

queueVars == <<queue_objs, queue_ref, parties>>

otherVars == <<counterVars, busVars, managerVars, storeVars, apiVars, queueVars>>

vars == <<features, specs, logs, log_queues, workflows, run, req, extLeft,
          feature_counter, today, conn, db_lock, returned, overlapped, callsLeft,
          ret, events, queue_seq, subs, sent, dequeued, pubLeft, threads, startsLeft,
          now, storeLeft, regLeft, gen, ids, idsLeft, queue_objs, queue_ref, parties>>

(* ------------------------------ helpers -------------------------------- *)

EmptyMap == [k \in {} |-> None]

\* d[k] = v of a dict; INSERT or UPDATE of the row with key k; writing file k
Put(d, k, v) == [x \in (DOMAIN d) \cup {k} |-> IF x = k THEN v ELSE d[x]]

\* d.get(k); SELECT ... WHERE key = k; reading file k
Get(d, k) == IF k \in DOMAIN d THEN d[k] ELSE None

(* ----------------------------- spec store ------------------------------ *)

\* datetime.isoformat(): the text of a timestamp
IsoFormat(t) == <<"iso", t>>

\* datetime.fromisoformat()
FromIsoFormat(text) == text[2]

\* write_phase_spec: dependencies or []; the argument is None or wraps a list
DepsOrEmpty(dependencies) == IF dependencies = None THEN <<>> ELSE dependencies.list

\* spec_dict of write_phase_spec and update_phase_status: what yaml.dump
\* writes to the phase file.  The strings, the list of strings and the
\* mapping are dumped and loaded as they are; the timestamps go through
\* isoformat().  (feature_id and phase are the file's key; the timestamp of
\* an approval record is not modelled.)
SpecDict(spec) ==
    [status       |-> spec.status,
     content      |-> spec.content,
     approvals    |-> spec.approvals,
     dependencies |-> spec.dependencies,
     created_at   |-> IsoFormat(spec.created_at),
     updated_at   |-> IsoFormat(spec.updated_at)]

\* a bug: the dependencies of the file are not read back
ParseSpecNoDependencies(data) ==
    [status       |-> data.status,
     content      |-> data.content,
     approvals    |-> data.approvals,
     dependencies |-> <<>>,
     created_at   |-> FromIsoFormat(data.created_at),
     updated_at   |-> FromIsoFormat(data.updated_at)]

\* read_phase_spec: the SpecPhase built from the mapping yaml.safe_load returns
ParseSpec(data) ==
    [status       |-> data.status,
     content      |-> data.content,
     approvals    |-> data.approvals,
     dependencies |-> data.dependencies,
     created_at   |-> FromIsoFormat(data.created_at),
     updated_at   |-> FromIsoFormat(data.updated_at)]

\* utils.read_phase_spec: None when the phase file does not exist
ReadPhaseSpec(f, phase) ==
    IF <<f, phase>> \in DOMAIN specs THEN ParseSpec(specs[<<f, phase>>]) ELSE None

\* utils.write_phase_spec: the SpecPhase it builds, writes and returns
WritePhaseSpec(content, status, dependencies) ==
    [status       |-> status,
     content      |-> content,
     approvals    |-> <<[user |-> "system", comment |-> "Auto-generated"]>>,
     dependencies |-> DepsOrEmpty(dependencies),
     created_at   |-> now,
     updated_at   |-> now]

\* a bug: the new approval record replaces the history
UpdatePhaseStatusReplace(spec, status, comment, user) ==
    [spec EXCEPT !.status = status,
                 !.approvals = <<[user |-> user, comment |-> comment]>>]

\* a bug: the update stamps the creation time as well
UpdatePhaseStatusNewCreated(spec, status, comment, user) ==
    [spec EXCEPT !.status = status,
                 !.created_at = now,
                 !.updated_at = now,
                 !.approvals = Append(@, [user |-> user, comment |-> comment])]

\* utils.update_phase_status, on the spec read: the SpecPhase it writes back
\* and returns
UpdatePhaseStatus(spec, status, comment, user) ==
    [spec EXCEPT !.status = status,
                 !.updated_at = now,
                 !.approvals = Append(@, [user |-> user, comment |-> comment])]

(* --------------------------- feature registry -------------------------- *)

\* db.create_feature: the row inserted
CreateFeature(description) ==
    [description |-> description, status |-> DRAFT, current_phase |-> REQUIREMENTS]

\* a bug: without a phase the UPDATE puts current_phase back to its default
UpdateFeatureStatusResetPhase(f, status, phase) ==
    IF f \notin DOMAIN features THEN features
    ELSE [features EXCEPT ![f].status = status,
                          ![f].current_phase = IF phase # NoPhase THEN phase
                                               ELSE REQUIREMENTS]

\* a bug: the UPDATE has no WHERE clause and sets the status of every row
UpdateFeatureStatusAllRows(f, status, phase) ==
    IF f \notin DOMAIN features THEN features
    ELSE [g \in DOMAIN features |->
            IF g = f /\ phase # NoPhase
            THEN [features[g] EXCEPT !.status = status, !.current_phase = phase]
            ELSE [features[g] EXCEPT !.status = status]]

\* db.update_feature_status: the features table after the UPDATE
UpdateFeatureStatus(f, status, phase) ==
    IF f \notin DOMAIN features THEN features
    ELSE IF phase # NoPhase
         THEN [features EXCEPT ![f].status = status, ![f].current_phase = phase]
         ELSE [features EXCEPT ![f].status = status]

\* a bug: the return value does not depend on the rows matched
UpdateFeatureStatusReturnAlways(f) ==
    (IF f \in DOMAIN features THEN 1 ELSE 0) >= 0

\* db.update_feature_status: cursor.rowcount > 0
UpdateFeatureStatusReturn(f) ==
    (IF f \in DOMAIN features THEN 1 ELSE 0) > 0

(* ------------------------------ event bus ------------------------------ *)

Entry(message, level) == [message |-> message, level |-> level]

\* the rows of feature f in the logs table
LogsOf(f) == IF f \in DOMAIN logs THEN logs[f] ELSE EmptyBag

\* db.add_log: the logs table after the INSERT
AddLog(f, message, level) ==
    Put(logs, f, LogsOf(f) (+) SetToBag({Entry(message, level)}))

\* agents.get_log_queue: log_queues after the lookup, the queue made if missing
GetLogQueue(f) == IF f \in DOMAIN log_queues THEN log_queues ELSE Put(log_queues, f, <<>>)

\* the events published for feature f so far
EventsOf(f) == IF f \in DOMAIN events THEN events[f] ELSE <<>>

\* the publish numbers of the items on the queue of feature f
QueueSeqOf(f) == IF f \in DOMAIN queue_seq THEN queue_seq[f] ELSE <<>>

\* the publish numbers taken off the queue of feature f, in dequeue order
DequeuedOf(f) == IF f \in DOMAIN dequeued THEN dequeued[f] ELSE <<>>

\* the messages run_workflow and execute_phase log; err names the exception
Msg(text, phase, err) == [text |-> text, phase |-> phase, err |-> err]

\* a bug: the event is put on the queue without the durable row
LogMessageQueueOnly(f, message, level) ==
    /\ logs' = logs
    /\ log_queues' = Put(log_queues, f, Append(GetLogQueue(f)[f], Entry(message, level)))
    /\ events' = Put(events, f, Append(EventsOf(f), Entry(message, level)))
    /\ queue_seq' = Put(queue_seq, f, Append(QueueSeqOf(f), Len(EventsOf(f)) + 1))

\* agents.log_message: add_log commits the row, then the event is put on the
\* feature's queue
LogMessage(f, message, level) ==
    /\ logs' = AddLog(f, message, level)
    /\ log_queues' = Put(log_queues, f, Append(GetLogQueue(f)[f], Entry(message, level)))
    /\ events' = Put(events, f, Append(EventsOf(f), Entry(message, level)))
    /\ queue_seq' = Put(queue_seq, f, Append(QueueSeqOf(f), Len(EventsOf(f)) + 1))

(* --------------------------- workflow engine --------------------------- *)

\* execute_phase: status = COMPLETED if auto_approve else PENDING_APPROVAL
PhaseWriteStatus(auto_approve) == IF auto_approve THEN COMPLETED ELSE PENDING_APPROVAL

\* a bug: the final status ignores auto_approve
FinalStatusPending(auto_approve) == PENDING_APPROVAL

\* run_workflow: final_status
FinalStatus(auto_approve) == IF auto_approve THEN COMPLETED ELSE PENDING_APPROVAL

\* a bug: the handler logs at log_message's default level
ExceptLogLevelDefault == "info"

\* run_workflow's handler: log_message(feat_id, error_msg, level="error")
ExceptLogLevel == "error"

\* the positions of execute_phase and of the log line before it
PhasePcs == {"phase_log", "exec_log", "kickoff", "gen_log", "write_spec",
             "wrote_log", "update_feature", "auto_read", "auto_write"}

\* the positions inside run_workflow's try block
TryPcs == PhasePcs \cup {"create_agents", "mark_in_progress", "final_status", "complete_log"}

\* the positions of the except block
ExceptPcs == {"except_log", "except_status"}

\* "returned": run_workflow returned; "crashed": an exception left the thread
EndPcs == {"returned", "crashed"}

\* the content crew.kickoff() returns for a phase: opaque to the engine
Kickoff(f, phase) == <<f, phase>>

NewRun(auto_approve) ==
    [pc           |-> "start_log",
     phase        |-> 0,
     auto_approve |-> auto_approve,
     content      |-> <<>>,
     spec         |-> None,
     error        |-> None,
     nfaults      |-> 0,
     kicks        |-> [p \in Phases |-> 0]]

\* a bug: every other phase is left out
AdvanceSkipsPhase(r) ==
    IF r.phase < NumPhases - 1
    THEN [r EXCEPT !.pc = "phase_log", !.phase = @ + 2]
    ELSE [r EXCEPT !.pc = "final_status"]

\* the run after execute_phase returns: the next phase, or the final update
Advance(r) ==
    IF r.phase < NumPhases
    THEN [r EXCEPT !.pc = "phase_log", !.phase = @ + 1]
    ELSE [r EXCEPT !.pc = "final_status"]

\* the run after the operation at its position raises: into the except block
\* from inside try, out of the thread otherwise.  error is the exception, with
\* what the registry and the invocation counts were when it was raised
Raise(f) ==
    LET r == run[f] IN
    [r EXCEPT !.pc = IF r.pc \in TryPcs THEN "except_log" ELSE "crashed",
              !.nfaults = @ + 1,
              !.error = IF @ # None THEN @
                        ELSE [at      |-> r.pc,
                              phase   |-> IF r.pc \in PhasePcs THEN r.phase ELSE 0,
                              feature |-> Get(features, f),
                              kicks   |-> r.kicks]]

\* main.start_workflow: create_feature, workflow_manager.start, the thread
StartWorkflow(f, auto_approve) ==
    /\ f \notin DOMAIN features
    /\ features' = Put(features, f, CreateFeature("desc"))
    /\ workflows' = Put(workflows, f, [status |-> "running"])
    /\ run' = Put(run, f, NewRun(auto_approve))
    /\ UNCHANGED <<specs, logs, log_queues, req, extLeft, ret, pubVars, otherVars>>

\* a log_message call of the engine at position from
LogStep(f, from, text, to) ==
    /\ f \in DOMAIN run
    /\ run[f].pc = from
    /\ LogMessage(f, Msg(text, run[f].phase, ""), "info")
    /\ run' = [run EXCEPT ![f].pc = to]
    /\ UNCHANGED <<features, specs, workflows, req, extLeft, ret, otherVars>>

\* run_workflow: log_message "Starting workflow", before the try block
RunStartLog(f) == LogStep(f, "start_log", "Starting workflow", "create_agents")

\* run_workflow: the six create_* calls
RunCreateAgents(f) ==
    /\ f \in DOMAIN run
    /\ run[f].pc = "create_agents"
    /\ run' = [run EXCEPT ![f].pc = "mark_in_progress"]
    /\ UNCHANGED <<features, specs, logs, log_queues, workflows, req, extLeft, ret, pubVars, otherVars>>

\* run_workflow: update_feature_status(IN_PROGRESS, REQUIREMENTS)
RunMarkInProgress(f) ==
    /\ f \in DOMAIN run
    /\ run[f].pc = "mark_in_progress"
    /\ features' = UpdateFeatureStatus(f, IN_PROGRESS, REQUIREMENTS)
    /\ run' = [run EXCEPT ![f].pc = "phase_log", ![f].phase = REQUIREMENTS]
    /\ UNCHANGED <<specs, logs, log_queues, workflows, req, extLeft, ret, pubVars, otherVars>>

\* run_workflow: log_message "Phase i/6"
RunPhaseLog(f) == LogStep(f, "phase_log", "Phase i/6", "exec_log")

\* execute_phase: log_message "Executing phase"
ExecLog(f) == LogStep(f, "exec_log", "Executing phase", "kickoff")

\* a bug: the registry is advanced to the phase when its executor is invoked
ExecKickoffAdvancesRegistry(f) ==
    /\ f \in DOMAIN run
    /\ run[f].pc = "kickoff"
    /\ run' = [run EXCEPT ![f].pc = "gen_log",
                          ![f].content = Kickoff(f, run[f].phase),
                          ![f].kicks[run[f].phase] = @ + 1]
    /\ features' = UpdateFeatureStatus(f, IN_PROGRESS, run[f].phase)
    /\ UNCHANGED <<specs, logs, log_queues, workflows, req, extLeft, ret, pubVars, otherVars>>

\* execute_phase: crew.kickoff() returns the content
ExecKickoff(f) ==
    /\ f \in DOMAIN run
    /\ run[f].pc = "kickoff"
    /\ run' = [run EXCEPT ![f].pc = "gen_log",
                          ![f].content = Kickoff(f, run[f].phase),
                          ![f].kicks[run[f].phase] = @ + 1]
    /\ UNCHANGED <<features, specs, logs, log_queues, workflows, req, extLeft, ret, pubVars, otherVars>>

\* execute_phase: log_message "generated n characters"
ExecGenLog(f) == LogStep(f, "gen_log", "Phase generated output", "write_spec")

\* execute_phase: write_phase_spec
ExecWriteSpec(f) ==
    /\ f \in DOMAIN run
    /\ run[f].pc = "write_spec"
    /\ specs' = Put(specs, <<f, run[f].phase>>,
                    SpecDict(WritePhaseSpec(run[f].content,
                                            PhaseWriteStatus(run[f].auto_approve), None)))
    /\ run' = [run EXCEPT ![f].pc = "wrote_log"]
    /\ UNCHANGED <<features, logs, log_queues, workflows, req, extLeft, ret, pubVars, otherVars>>

\* execute_phase: log_message "Wrote spec file"
ExecWroteLog(f) == LogStep(f, "wrote_log", "Wrote spec file", "update_feature")

\* execute_phase: update_feature_status(IN_PROGRESS, phase); without
\* auto_approve execute_phase returns here and run_workflow goes on
ExecUpdateFeature(f) ==
    /\ f \in DOMAIN run
    /\ run[f].pc = "update_feature"
    /\ features' = UpdateFeatureStatus(f, IN_PROGRESS, run[f].phase)
    /\ run' = [run EXCEPT ![f] = IF @.auto_approve THEN [@ EXCEPT !.pc = "auto_read"]
                                 ELSE Advance(@)]
    /\ UNCHANGED <<specs, logs, log_queues, workflows, req, extLeft, ret, pubVars, otherVars>>

\* execute_phase, auto_approve: update_phase_status reads the spec file
ExecAutoRead(f) ==
    /\ f \in DOMAIN run
    /\ run[f].pc = "auto_read"
    /\ LET spec == ReadPhaseSpec(f, run[f].phase) IN
       run' = [run EXCEPT ![f] = IF spec = None THEN Advance(@)
                                 ELSE [@ EXCEPT !.pc = "auto_write", !.spec = spec]]
    /\ UNCHANGED <<features, specs, logs, log_queues, workflows, req, extLeft, ret, pubVars, otherVars>>

\* execute_phase, auto_approve: update_phase_status writes the spec file back
ExecAutoWrite(f) ==
    /\ f \in DOMAIN run
    /\ run[f].pc = "auto_write"
    /\ specs' = Put(specs, <<f, run[f].phase>>,
                    SpecDict(UpdatePhaseStatus(run[f].spec, COMPLETED, "Auto-approved", "system")))
    /\ run' = [run EXCEPT ![f] = Advance([@ EXCEPT !.spec = None])]
    /\ UNCHANGED <<features, logs, log_queues, workflows, req, extLeft, ret, pubVars, otherVars>>

\* run_workflow: update_feature_status(final_status, REVIEW)
RunFinalStatus(f) ==
    /\ f \in DOMAIN run
    /\ run[f].pc = "final_status"
    /\ features' = UpdateFeatureStatus(f, FinalStatus(run[f].auto_approve), REVIEW)
    /\ run' = [run EXCEPT ![f].pc = "complete_log"]
    /\ UNCHANGED <<specs, logs, log_queues, workflows, req, extLeft, ret, pubVars, otherVars>>

\* run_workflow: log_message "Workflow completed successfully", return
RunCompleteLog(f) == LogStep(f, "complete_log", "Workflow completed", "returned")

\* an operation of the run raises: crew.kickoff(), a create_* call, a spec
\* file read or write, an SQLite statement of add_log or update_feature_status
RunRaise(f) ==
    /\ f \in DOMAIN run
    /\ run[f].pc \notin EndPcs
    /\ run[f].nfaults < MaxFaults
    /\ run' = [run EXCEPT ![f] = Raise(f)]
    /\ UNCHANGED <<features, specs, logs, log_queues, workflows, req, extLeft, ret, pubVars, otherVars>>

\* run_workflow, except: log_message(feat_id, error_msg, level="error")
RunExceptLog(f) ==
    /\ f \in DOMAIN run
    /\ run[f].pc = "except_log"
    /\ LogMessage(f, Msg("Workflow error", run[f].error.phase, run[f].error.at), ExceptLogLevel)
    /\ run' = [run EXCEPT ![f].pc = "except_status"]
    /\ UNCHANGED <<features, specs, workflows, req, extLeft, ret, otherVars>>

\* a bug: the handler passes the phase that failed
ExceptPhaseOfRun(f) == run[f].error.phase

\* run_workflow, except: the phase argument of update_feature_status is None
ExceptPhase(f) == NoPhase

\* a bug: the handler rolls back, removing the feature's spec files
RunExceptStatusRollback(f) ==
    /\ f \in DOMAIN run
    /\ run[f].pc = "except_status"
    /\ features' = UpdateFeatureStatus(f, REJECTED, ExceptPhase(f))
    /\ specs' = [k \in {x \in DOMAIN specs : x[1] # f} |-> specs[k]]
    /\ run' = [run EXCEPT ![f].pc = "returned"]
    /\ UNCHANGED <<logs, log_queues, workflows, req, extLeft, ret, pubVars, otherVars>>

\* a bug: the handler leaves the feature pending approval
RunExceptStatusPending(f) ==
    /\ f \in DOMAIN run
    /\ run[f].pc = "except_status"
    /\ features' = UpdateFeatureStatus(f, PENDING_APPROVAL, ExceptPhase(f))
    /\ run' = [run EXCEPT ![f].pc = "returned"]
    /\ UNCHANGED <<specs, logs, log_queues, workflows, req, extLeft, ret, pubVars, otherVars>>

\* run_workflow, except: update_feature_status(REJECTED, None), return
RunExceptStatus(f) ==
    /\ f \in DOMAIN run
    /\ run[f].pc = "except_status"
    /\ features' = UpdateFeatureStatus(f, REJECTED, ExceptPhase(f))
    /\ run' = [run EXCEPT ![f].pc = "returned"]
    /\ UNCHANGED <<specs, logs, log_queues, workflows, req, extLeft, ret, pubVars, otherVars>>

\* the steps of the engine thread of feature f
Engine(f) ==
    \/ RunStartLog(f)
    \/ RunCreateAgents(f)
    \/ RunMarkInProgress(f)
    \/ RunPhaseLog(f)
    \/ ExecLog(f)
    \/ ExecKickoff(f)
    \/ ExecGenLog(f)
    \/ ExecWriteSpec(f)
    \/ ExecWroteLog(f)
    \/ ExecUpdateFeature(f)
    \/ ExecAutoRead(f)
    \/ ExecAutoWrite(f)
    \/ RunFinalStatus(f)
    \/ RunCompleteLog(f)
    \/ RunRaise(f)
    \/ RunExceptLog(f)
    \/ RunExceptStatus(f)

(* ------------------------- approve / reject ---------------------------- *)

\* the response of approve_spec to a request: ApproveSpecResponse, or the
\* HTTPException raised
Response(f, phase, status_code, detail) ==
    [op |-> "approve_spec", feat_id |-> f, phase |-> phase,
     status_code |-> status_code, detail |-> detail]

\* main.approve_spec: new_status of the action
NewStatus(action) == IF action = "approve" THEN APPROVED ELSE REJECTED

\* a bug: update_phase_status creates the document of a phase that has none
ApproveReadCreates(f, phase, action) ==
    /\ req = None
    /\ extLeft > 0
    /\ extLeft' = extLeft - 1
    /\ LET spec == ReadPhaseSpec(f, phase) IN
       /\ req' = IF f \notin DOMAIN features \/ action \notin {"approve", "reject"}
                    \/ spec = None
                 THEN None
                 ELSE [feat_id |-> f, phase |-> phase, action |-> action, spec |-> spec]
       /\ ret' = IF f \notin DOMAIN features THEN Response(f, phase, 404, "Feature not found")
                 ELSE IF action \notin {"approve", "reject"}
                 THEN Response(f, phase, 400, "Invalid action")
                 ELSE IF spec = None THEN Response(f, phase, 404, "Phase spec not found")
                 ELSE ret
       /\ specs' = IF f \in DOMAIN features /\ action \in {"approve", "reject"} /\ spec = None
                   THEN Put(specs, <<f, phase>>, SpecDict(WritePhaseSpec("", NewStatus(action), None)))
                   ELSE specs
    /\ UNCHANGED <<features, logs, log_queues, workflows, run, pubVars, otherVars>>

\* main.approve_spec up to update_phase_status's read of the spec file: 404
\* when the feature is missing, 400 when the action is neither approve nor
\* reject, 404 when the spec is missing
ApproveRead(f, phase, action) ==
    /\ req = None
    /\ extLeft > 0
    /\ extLeft' = extLeft - 1
    /\ LET spec == ReadPhaseSpec(f, phase) IN
       /\ req' = IF f \notin DOMAIN features \/ action \notin {"approve", "reject"}
                    \/ spec = None
                 THEN None
                 ELSE [feat_id |-> f, phase |-> phase, action |-> action, spec |-> spec]
       /\ ret' = IF f \notin DOMAIN features THEN Response(f, phase, 404, "Feature not found")
                 ELSE IF action \notin {"approve", "reject"}
                 THEN Response(f, phase, 400, "Invalid action")
                 ELSE IF spec = None THEN Response(f, phase, 404, "Phase spec not found")
                 ELSE ret
    /\ UNCHANGED <<features, specs, logs, log_queues, workflows, run, pubVars, otherVars>>

\* a bug: the approval action writes the feature's status to the registry
ApproveWriteToRegistry ==
    /\ req # None
    /\ specs' = Put(specs, <<req.feat_id, req.phase>>,
                    SpecDict(UpdatePhaseStatus(req.spec, NewStatus(req.action),
                                               "comment", "dashboard")))
    /\ features' = UpdateFeatureStatus(req.feat_id, NewStatus(req.action), NoPhase)
    /\ logs' = AddLog(req.feat_id, Msg("Phase " \o req.action \o "d", req.phase, ""), "info")
    /\ ret' = Response(req.feat_id, req.phase, 200, "success")
    /\ req' = None
    /\ UNCHANGED <<log_queues, workflows, run, extLeft, pubVars, otherVars>>

\* main.approve_spec: update_phase_status writes the file back, then add_log
ApproveWrite ==
    /\ req # None
    /\ specs' = Put(specs, <<req.feat_id, req.phase>>,
                    SpecDict(UpdatePhaseStatus(req.spec, NewStatus(req.action),
                                               "comment", "dashboard")))
    /\ logs' = AddLog(req.feat_id, Msg("Phase " \o req.action \o "d", req.phase, ""), "info")
    /\ ret' = Response(req.feat_id, req.phase, 200, "success")
    /\ req' = None
    /\ UNCHANGED <<features, log_queues, workflows, run, extLeft, pubVars, otherVars>>

(* --------------------------- spec store calls -------------------------- *)

\* the document in the phase file, or None
FileOf(f, phase) == Get(specs, <<f, phase>>)

\* a bug: write_phase_spec appends its record to the history of the
\* document it overwrites
StoreWriteKeepHistory(f, phase, content, status, dependencies) ==
    /\ storeLeft > 0
    /\ storeLeft' = storeLeft - 1
    /\ LET spec == WritePhaseSpec(content, status, dependencies)
           old  == ReadPhaseSpec(f, phase) IN
       /\ specs' = Put(specs, <<f, phase>>,
                       SpecDict(IF old = None THEN spec
                                ELSE [spec EXCEPT !.approvals = old.approvals \o @]))
       /\ ret' = [op |-> "write_phase_spec", key |-> <<f, phase>>, content |-> content,
                  status |-> status, dependencies |-> dependencies,
                  previous |-> FileOf(f, phase), result |-> spec]
    /\ UNCHANGED <<features, logs, log_queues, workflows, run, req, extLeft, pubVars,
                   now, counterVars, busVars, managerVars, apiVars, queueVars>>

\* a call of utils.write_phase_spec: the file is created or overwritten
StoreWrite(f, phase, content, status, dependencies) ==
    /\ storeLeft > 0
    /\ storeLeft' = storeLeft - 1
    /\ LET spec == WritePhaseSpec(content, status, dependencies) IN
       /\ specs' = Put(specs, <<f, phase>>, SpecDict(spec))
       /\ ret' = [op |-> "write_phase_spec", key |-> <<f, phase>>, content |-> content,
                  status |-> status, dependencies |-> dependencies,
                  previous |-> FileOf(f, phase), result |-> spec]
    /\ UNCHANGED <<features, logs, log_queues, workflows, run, req, extLeft, pubVars,
                   now, counterVars, busVars, managerVars, apiVars, queueVars>>

\* a call of utils.read_phase_spec
StoreRead(f, phase) ==
    /\ storeLeft > 0
    /\ storeLeft' = storeLeft - 1
    /\ ret' = [op |-> "read_phase_spec", key |-> <<f, phase>>,
               result |-> ReadPhaseSpec(f, phase)]
    /\ UNCHANGED <<features, specs, logs, log_queues, workflows, run, req, extLeft, pubVars,
                   now, counterVars, busVars, managerVars, apiVars, queueVars>>

\* a call of utils.update_phase_status with no other writer of the file
\* between its read and its write
StoreUpdate(f, phase, status, comment, user) ==
    /\ storeLeft > 0
    /\ storeLeft' = storeLeft - 1
    /\ LET spec == ReadPhaseSpec(f, phase) IN
       IF spec = None
       THEN /\ ret' = [op |-> "update_phase_status", key |-> <<f, phase>>, status |-> status,
                       user |-> user, comment |-> comment,
                       previous |-> None, result |-> None]
            /\ UNCHANGED specs
       ELSE /\ specs' = Put(specs, <<f, phase>>,
                            SpecDict(UpdatePhaseStatus(spec, status, comment, user)))
            /\ ret' = [op |-> "update_phase_status", key |-> <<f, phase>>, status |-> status,
                       user |-> user, comment |-> comment,
                       previous |-> FileOf(f, phase),
                       result |-> UpdatePhaseStatus(spec, status, comment, user)]
    /\ UNCHANGED <<features, logs, log_queues, workflows, run, req, extLeft, pubVars,
                   now, counterVars, busVars, managerVars, apiVars, queueVars>>

\* time passes between two readings of datetime.utcnow()
ClockTick ==
    /\ now < MaxClock
    /\ now' = now + 1
    /\ UNCHANGED <<engineVars, storeLeft, counterVars, busVars, managerVars, apiVars, queueVars>>

(* ------------------------ event bus subscribers ------------------------ *)

\* a websocket_logs handler that has not been called
IdleSub == [pc |-> "closed", feat_id |-> "", since |-> 0, log_data |-> None, seq |-> 0]

\* a bug: get_nowait returns the newest item
GetNowaitLast(q) == [item |-> q[Len(q)], rest |-> SubSeq(q, 1, Len(q) - 1)]

\* a bug: get_nowait leaves the item on the queue
GetNowaitPeek(q) == [item |-> Head(q), rest |-> q]

\* Queue.get_nowait on a queue that is not empty: the item returned and the
\* items left (queue.Queue is first in, first out)
GetNowait(q) == [item |-> Head(q), rest |-> Tail(q)]

\* a call of agents.log_message: publish on the bus
BusPublish(f, message, level) ==
    /\ pubLeft > 0
    /\ pubLeft' = pubLeft - 1
    /\ LogMessage(f, message, level)
    /\ UNCHANGED <<features, specs, workflows, run, req, extLeft, ret,
                   subs, sent, dequeued, counterVars, managerVars, apiVars, queueVars, storeVars>>

\* websocket_logs: accept, validate_feature_id, queue = get_log_queue(feat_id);
\* since is the number of events published before the subscription
SubAccept(s, f) ==
    /\ subs[s].pc = "closed"
    /\ log_queues' = GetLogQueue(f)
    /\ subs' = [subs EXCEPT ![s] = [IdleSub EXCEPT !.pc = "check", !.feat_id = f,
                                                   !.since = Len(EventsOf(f))]]
    /\ UNCHANGED <<features, specs, logs, workflows, run, req, extLeft, ret, pubVars,
                   sent, dequeued, pubLeft, counterVars, managerVars, apiVars, queueVars, storeVars>>

\* websocket_logs: after the sleep, queue.empty() is false (while it is true
\* the handler sleeps again)
SubCheck(s) ==
    /\ subs[s].pc = "check"
    /\ log_queues[subs[s].feat_id] # <<>>
    /\ subs' = [subs EXCEPT ![s].pc = "get"]
    /\ UNCHANGED <<engineVars, sent, dequeued, pubLeft, counterVars, managerVars, apiVars, queueVars, storeVars>>

\* websocket_logs: log_data = queue.get_nowait(); on an empty queue it raises
\* queue.Empty and the handler continues with the next round
SubGet(s) ==
    /\ subs[s].pc = "get"
    /\ LET f == subs[s].feat_id IN
       IF log_queues[f] = <<>>
       THEN /\ subs' = [subs EXCEPT ![s].pc = "check"]
            /\ UNCHANGED <<log_queues, queue_seq, dequeued>>
       ELSE /\ subs' = [subs EXCEPT ![s].pc = "send",
                                    ![s].log_data = GetNowait(log_queues[f]).item,
                                    ![s].seq = GetNowait(QueueSeqOf(f)).item]
            /\ log_queues' = [log_queues EXCEPT ![f] = GetNowait(@).rest]
            /\ queue_seq' = Put(queue_seq, f, GetNowait(QueueSeqOf(f)).rest)
            /\ dequeued' = Put(dequeued, f, Append(DequeuedOf(f), GetNowait(QueueSeqOf(f)).item))
    /\ UNCHANGED <<features, specs, logs, workflows, run, req, extLeft, ret, events,
                   sent, pubLeft, counterVars, managerVars, apiVars, queueVars, storeVars>>

\* websocket_logs: websocket.send_json(message) delivers the event
SubSend(s) ==
    /\ subs[s].pc = "send"
    /\ sent' = Append(sent, [sub |-> s, feat_id |-> subs[s].feat_id, seq |-> subs[s].seq,
                             event |-> subs[s].log_data])
    /\ subs' = [subs EXCEPT ![s].pc = "check", ![s].log_data = None, ![s].seq = 0]
    /\ UNCHANGED <<engineVars, dequeued, pubLeft, counterVars, managerVars, apiVars, queueVars, storeVars>>

\* websocket_logs: send_json raises (the client is gone); except Exception:
\* continue, the event is dropped
SubSendRaise(s) ==
    /\ subs[s].pc = "send"
    /\ subs' = [subs EXCEPT ![s].pc = "check", ![s].log_data = None, ![s].seq = 0]
    /\ UNCHANGED <<engineVars, sent, dequeued, pubLeft, counterVars, managerVars, apiVars, queueVars, storeVars>>

(* ------------------------ get_log_queue, by step ----------------------- *)

(* The engine thread and the event loop thread that runs the websocket    *)
(* handlers call get_log_queue on the same dict; the interpreter can      *)
(* switch threads between the membership test, the assignment and the     *)
(* lookup of the return statement.  A Queue object is its index in        *)
(* queue_objs.                                                            *)

\* thread 0 is the engine thread, the others run websocket_logs
QueueParties == 0..NumSubs

\* queue is the Queue object the thread holds, 0 for none; got the objects
\* get_log_queue has returned to it; puts the events it has put
IdleParty == [pc |-> "idle", queue |-> 0, got |-> {}, puts |-> 0]

\* get_log_queue: if feat_id not in log_queues
GetLogQueueCheck(t, f) ==
    /\ parties[t].pc = "idle"
    /\ t = 0 => parties[t].puts < MaxPublish
    /\ parties' = [parties EXCEPT ![t].pc = IF f \in DOMAIN queue_ref THEN "return"
                                            ELSE "create"]
    /\ UNCHANGED <<engineVars, queue_objs, queue_ref, counterVars, busVars, managerVars,
                   storeVars, apiVars>>

\* get_log_queue: log_queues[feat_id] = Queue()
GetLogQueueCreate(t, f) ==
    /\ parties[t].pc = "create"
    /\ queue_objs' = Append(queue_objs, <<>>)
    /\ queue_ref' = Put(queue_ref, f, Len(queue_objs) + 1)
    /\ parties' = [parties EXCEPT ![t].pc = "return"]
    /\ UNCHANGED <<engineVars, counterVars, busVars, managerVars, storeVars, apiVars>>

\* get_log_queue: return log_queues[feat_id]; the engine goes on to put its
\* event, a websocket handler keeps the queue and polls it
GetLogQueueReturn(t, f) ==
    /\ parties[t].pc = "return"
    /\ parties' = [parties EXCEPT ![t].pc = IF t = 0 THEN "put" ELSE "polling",
                                  ![t].queue = queue_ref[f],
                                  ![t].got = @ \cup {queue_ref[f]}]
    /\ UNCHANGED <<engineVars, queue_objs, queue_ref, counterVars, busVars, managerVars,
                   storeVars, apiVars>>

\* log_message: queue.put({"message": ..., "level": ...})
QueuePut(t) ==
    /\ parties[t].pc = "put"
    /\ queue_objs' = [queue_objs EXCEPT ![parties[t].queue] =
                          Append(@, [event |-> parties[t].puts + 1])]
    /\ parties' = [parties EXCEPT ![t].pc = "idle", ![t].queue = 0, ![t].puts = @ + 1]
    /\ UNCHANGED <<engineVars, queue_ref, counterVars, busVars, managerVars, storeVars,
                   apiVars>>

(* --------------------------- workflow manager -------------------------- *)

\* a bug: list_running leaves out the features whose threads have ended
ListRunningAlive ==
    {f \in DOMAIN workflows :
        /\ workflows[f].status = "running"
        /\ \E i \in DOMAIN threads : threads[i].feat_id = f /\ threads[i].alive}

\* WorkflowManager.list_running (the order of the list is not modelled)
ListRunning == {f \in DOMAIN workflows : workflows[f].status = "running"}

\* a bug: get_status marks the feature it is asked about as in progress
ManagerGetStatusMarks(f) ==
    /\ ret' = IF f \notin DOMAIN features THEN None
              ELSE [op |-> "get_status", feat_id |-> f, status |-> IN_PROGRESS,
                    current_phase |-> features[f].current_phase]
    /\ features' = UpdateFeatureStatus(f, IN_PROGRESS, NoPhase)
    /\ UNCHANGED <<specs, logs, log_queues, workflows, run, req, extLeft,
                   pubVars, otherVars>>

\* WorkflowManager.get_status: None for an unknown feature, else the status
\* and the current phase of its row
ManagerGetStatus(f) ==
    /\ ret' = IF f \notin DOMAIN features THEN None
              ELSE [op |-> "get_status", feat_id |-> f, status |-> features[f].status,
                    current_phase |-> features[f].current_phase]
    /\ UNCHANGED <<features, specs, logs, log_queues, workflows, run, req, extLeft,
                   pubVars, otherVars>>

\* a status query for a feature whose run has ended
StatusAfterRun(f) ==
    /\ f \in DOMAIN run
    /\ run[f].pc \in EndPcs
    /\ ManagerGetStatus(f)

\* a subscription to the events of a feature whose run has ended
SubscribeAfterRun(s, f) ==
    /\ f \in DOMAIN run
    /\ run[f].pc \in EndPcs
    /\ SubAccept(s, f)

\* WorkflowManager.start: the marker, then start_workflow_async starts a thread
ManagerStart(f, auto_approve) ==
    /\ startsLeft > 0
    /\ startsLeft' = startsLeft - 1
    /\ workflows' = Put(workflows, f, [status |-> "running"])
    /\ threads' = Append(threads, [feat_id |-> f, auto_approve |-> auto_approve,
                                   alive |-> TRUE])
    /\ UNCHANGED <<features, specs, logs, log_queues, run, req, extLeft, ret, pubVars,
                   counterVars, busVars, storeVars, apiVars, queueVars>>

\* start_workflow_async: run() ends, run_workflow having returned or raised
ThreadExit(i) ==
    /\ i \in DOMAIN threads
    /\ threads[i].alive
    /\ threads' = [threads EXCEPT ![i].alive = FALSE]
    /\ UNCHANGED <<engineVars, startsLeft, counterVars, busVars, storeVars, apiVars, queueVars>>

(* ------------------------- per-day feature counter --------------------- *)

IdleConn == [pc |-> "idle", today |-> 0, row |-> None, next_num |-> 0]

\* a bug: the counter read is returned as it is
NextNumNoIncrement(row) == IF row # None THEN row.counter ELSE 1

\* get_next_feature_number: next_num of the row read
NextNum(row) == IF row # None THEN row.counter + 1 ELSE 1

\* get_next_feature_number: today = datetime.utcnow().strftime("%Y%m%d")
CounterBegin(c) ==
    /\ conn[c].pc = "idle"
    /\ callsLeft > 0
    /\ callsLeft' = callsLeft - 1
    /\ conn' = [conn EXCEPT ![c] = [IdleConn EXCEPT !.pc = "select", !.today = today]]
    /\ overlapped' = (overlapped \/ \E d \in Callers : conn[d].pc # "idle")
    /\ UNCHANGED <<feature_counter, today, db_lock, returned, engineVars, busVars, managerVars, apiVars, queueVars, storeVars>>

\* get_next_feature_number: SELECT counter FROM feature_counter WHERE date = ?
\* (no transaction is open: the read holds no lock after the statement)
CounterSelect(c) ==
    /\ conn[c].pc = "select"
    /\ LET row == Get(feature_counter, conn[c].today) IN
       conn' = [conn EXCEPT ![c].pc = "write", ![c].row = row, ![c].next_num = NextNum(row)]
    /\ UNCHANGED <<feature_counter, today, db_lock, returned, overlapped, callsLeft, engineVars, busVars, managerVars, apiVars, queueVars, storeVars>>

\* get_next_feature_number: the UPDATE or the INSERT opens a transaction and
\* takes SQLite's write lock, waiting while another connection holds it; the
\* INSERT of a date that has a row by now raises IntegrityError
CounterWrite(c) ==
    /\ conn[c].pc = "write"
    /\ db_lock = 0
    /\ IF conn[c].row = None /\ conn[c].today \in DOMAIN feature_counter
       THEN /\ conn' = [conn EXCEPT ![c] = IdleConn]
            /\ UNCHANGED db_lock
       ELSE /\ conn' = [conn EXCEPT ![c].pc = "commit"]
            /\ db_lock' = c
    /\ UNCHANGED <<feature_counter, today, returned, overlapped, callsLeft, engineVars, busVars, managerVars, apiVars, queueVars, storeVars>>

\* get_next_feature_number: conn.commit(), return next_num
CounterCommit(c) ==
    /\ conn[c].pc = "commit"
    /\ db_lock = c
    /\ feature_counter' = Put(feature_counter, conn[c].today, [counter |-> conn[c].next_num])
    /\ db_lock' = 0
    /\ returned' = [returned EXCEPT ![conn[c].today] = Append(@, conn[c].next_num)]
    /\ conn' = [conn EXCEPT ![c] = IdleConn]
    /\ UNCHANGED <<today, overlapped, callsLeft, engineVars, busVars, managerVars, apiVars, queueVars, storeVars>>

\* midnight UTC
Tick ==
    /\ today < MaxDays
    /\ today' = today + 1
    /\ UNCHANGED <<feature_counter, conn, db_lock, returned, overlapped, callsLeft, engineVars, busVars, managerVars, apiVars, queueVars, storeVars>>

(* ----------------------- feature registry calls ------------------------ *)

\* a bug: INSERT OR REPLACE, the existing row is overwritten
RegCreateReplace(f, description) ==
    /\ regLeft > 0
    /\ regLeft' = regLeft - 1
    /\ features' = Put(features, f, CreateFeature(description))
    /\ ret' = [op |-> "create_feature", feature_id |-> f, args |-> description,
               previous |-> features,
               raised |-> IF f \in DOMAIN features THEN "IntegrityError" ELSE "",
               result |-> None]
    /\ UNCHANGED <<specs, logs, log_queues, workflows, run, req, extLeft, pubVars,
                   gen, ids, idsLeft, queueVars, counterVars, busVars, managerVars, storeVars>>

\* db.create_feature: the INSERT; feature_id is UNIQUE, so a second row with
\* the same feature_id raises sqlite3.IntegrityError and nothing is committed
RegCreate(f, description) ==
    /\ regLeft > 0
    /\ regLeft' = regLeft - 1
    /\ IF f \in DOMAIN features
       THEN /\ features' = features
            /\ ret' = [op |-> "create_feature", feature_id |-> f, args |-> description,
                       previous |-> features, raised |-> "IntegrityError",
                       result |-> None]
       ELSE /\ features' = Put(features, f, CreateFeature(description))
            /\ ret' = [op |-> "create_feature", feature_id |-> f, args |-> description,
                       previous |-> features, raised |-> "",
                       result |-> CreateFeature(description)]
    /\ UNCHANGED <<specs, logs, log_queues, workflows, run, req, extLeft, pubVars,
                   gen, ids, idsLeft, queueVars, counterVars, busVars, managerVars, storeVars>>

\* db.update_feature_status called directly
RegUpdate(f, status, phase) ==
    /\ regLeft > 0
    /\ regLeft' = regLeft - 1
    /\ features' = UpdateFeatureStatus(f, status, phase)
    /\ ret' = [op |-> "update_feature_status", feature_id |-> f,
               args |-> [status |-> status, phase |-> phase],
               previous |-> features, raised |-> "",
               result |-> UpdateFeatureStatusReturn(f)]
    /\ UNCHANGED <<specs, logs, log_queues, workflows, run, req, extLeft, pubVars,
                   gen, ids, idsLeft, queueVars, counterVars, busVars, managerVars, storeVars>>

(* ------------------------- feature identifiers ------------------------- *)

(* A string is the sequence of its characters, a character a string of    *)
(* length one, so that formatting and pattern matching are computed.     *)

AsciiDigits == {"0", "1", "2", "3", "4", "5", "6", "7", "8", "9"}

\* a decimal digit outside ASCII (ARABIC-INDIC DIGIT THREE, U+0663), named
\* by its code point
UnicodeDigits == {"U+0663"}

\* re: \d on a str pattern matches every Unicode decimal digit
IsDigit(c) == c \in AsciiDigits \cup UnicodeDigits

\* the character of a digit value
DigitChar(n) == <<"0", "1", "2", "3", "4", "5", "6", "7", "8", "9">>[n + 1]

\* format(n, "d") of a natural number
RECURSIVE DecimalDigits(_)
DecimalDigits(n) ==
    IF n < 10 THEN <<DigitChar(n)>>
    ELSE Append(DecimalDigits(n \div 10), DigitChar(n % 10))

\* zero padding to a minimum width: longer texts are left as they are
RECURSIVE ZeroPad(_, _)
ZeroPad(text, width) ==
    IF Len(text) >= width THEN text ELSE ZeroPad(<<"0">> \o text, width)

\* f"{number:03d}"
Format03d(number) == ZeroPad(DecimalDigits(number), 3)

\* the calendar date of the first day of the model, as the number YYYYMMDD
FirstDate == 20260129

\* datetime.utcnow().strftime("%Y%m%d") on day d
Strftime(d) == DecimalDigits(FirstDate + d - 1)

\* generate_feat_id: f"FEAT-{today}-{number:03d}"
GenerateFeatId(d, number) ==
    <<"F", "E", "A", "T", "-">> \o Strftime(d) \o <<"-">> \o Format03d(number)

\* re: $ matches at the end of the string and just before a newline that
\* is the last character
MatchesDollar(text, pos) ==
    \/ pos = Len(text) + 1
    \/ pos = Len(text) /\ text[pos] = "\n"

\* validate_feature_id: bool(re.match(r"^FEAT-\d{8}-\d{3}$", feat_id))
ValidateFeatureId(feat_id) ==
    /\ Len(feat_id) >= 17
    /\ SubSeq(feat_id, 1, 5) = <<"F", "E", "A", "T", "-">>
    /\ \A i \in 6..13 : IsDigit(feat_id[i])
    /\ feat_id[14] = "-"
    /\ \A i \in 15..17 : IsDigit(feat_id[i])
    /\ MatchesDollar(feat_id, 18)

\* the strings validate_feature_id is called with: a prefix, a date part, a
\* separator, a number part and an ending
IdPrefixes == {<<"F", "E", "A", "T", "-">>, <<"F", "E", "A", "T">>,
               <<"f", "e", "a", "t", "-">>, <<>>}

IdDates == {Strftime(1), SubSeq(Strftime(1), 1, 7), Strftime(1) \o <<"0">>,
            SubSeq(Strftime(1), 1, 7) \o <<"x">>,
            SubSeq(Strftime(1), 1, 7) \o <<"U+0663">>}

IdSeparators == {<<"-">>, <<"_">>, <<>>}

IdNumbers == {Format03d(1), <<"0", "1">>, Format03d(1000), <<"0", "0", "a">>,
              <<"0", "0", "U+0663">>}

IdEndings == {<<>>, <<"\n">>, <<"\n", "\n">>, <<"x">>, <<" ">>}

IdInputs ==
    {<<>>} \cup
    {a \o b \o c \o d \o e : a \in IdPrefixes, b \in IdDates, c \in IdSeparators,
                              d \in IdNumbers, e \in IdEndings}

\* validate_feature_id called with a string
ValidateId(feat_id) ==
    /\ ret' = [op |-> "validate_feature_id", feat_id |-> feat_id,
               result |-> ValidateFeatureId(feat_id)]
    /\ UNCHANGED <<features, specs, logs, log_queues, workflows, run, req, extLeft,
                   pubVars, otherVars>>

IdleGen == [pc |-> "idle", today |-> 0]

\* generate_feat_id: today = datetime.utcnow().strftime("%Y%m%d")
GenDate ==
    /\ gen.pc = "idle"
    /\ idsLeft > 0
    /\ idsLeft' = idsLeft - 1
    /\ gen' = [pc |-> "number", today |-> today]
    /\ UNCHANGED <<engineVars, queueVars, regLeft, ids, counterVars, busVars, managerVars, storeVars>>

\* generate_feat_id: number = get_next_feature_number(), run by this one
\* caller from its date read to its commit, and the return of the identifier
GenNumber ==
    /\ gen.pc = "number"
    /\ LET number == NextNum(Get(feature_counter, today)) IN
       /\ feature_counter' = Put(feature_counter, today, [counter |-> number])
       /\ returned' = [returned EXCEPT ![today] = Append(@, number)]
       /\ ids' = Append(ids, GenerateFeatId(gen.today, number))
    /\ gen' = IdleGen
    /\ UNCHANGED <<engineVars, queueVars, regLeft, idsLeft, today, conn, db_lock, overlapped,
                   callsLeft, busVars, managerVars, storeVars>>

(* ------------------------------ progress ------------------------------- *)

(* calculate_progress adds 1, 0.5 and 0.75, which are exact in binary     *)
(* floating point; the sum is kept in quarters and the quotient returned  *)
(* as the fraction num / den.                                             *)

\* a bug: an approved phase counts as a completed one
ProgressWeightApprovedFull(status) ==
    IF status = COMPLETED THEN 4
    ELSE IF status = IN_PROGRESS THEN 2
    ELSE IF status = APPROVED THEN 4
    ELSE 0

\* calculate_progress: what one phase's status adds to completed, in quarters
ProgressWeight(status) ==
    IF status = COMPLETED THEN 4
    ELSE IF status = IN_PROGRESS THEN 2
    ELSE IF status = APPROVED THEN 3
    ELSE 0

\* calculate_progress: the loop over the phases from phase on
RECURSIVE ProgressLoop(_, _, _)
ProgressLoop(f, phase, completed) ==
    IF phase > NumPhases THEN completed
    ELSE LET spec == ReadPhaseSpec(f, phase) IN
         ProgressLoop(f, phase + 1,
                      IF spec # None THEN completed + ProgressWeight(spec.status)
                      ELSE completed)

\* utils.calculate_progress: completed / total
CalculateProgress(f) == [num |-> ProgressLoop(f, 1, 0), den |-> 4 * NumPhases]

\* calculate_progress called for a feature
CalcProgress(f) ==
    /\ ret' = [op |-> "calculate_progress", feat_id |-> f, result |-> CalculateProgress(f)]
    /\ UNCHANGED <<features, specs, logs, log_queues, workflows, run, req, extLeft,
                   pubVars, otherVars>>

\* the phase files of feature f with the given statuses, "missing" for no file
DocumentsOf(f, statuses) ==
    [k \in {<<f, p>> : p \in {q \in Phases : statuses[q] # "missing"}} |->
        SpecDict(WritePhaseSpec("content", statuses[k[2]], None))]

(* ------------------- endpoints taking a feature id --------------------- *)

\* the response of an endpoint
ApiResponse(op, feat_id, status_code, detail, body) ==
    [op |-> op, feat_id |-> feat_id, status_code |-> status_code,
     detail |-> detail, body |-> body]

\* the feature ids in the paths of the requests: an identifier as generated,
\* the same followed by a newline, with a 4-digit sequence, a fragment and
\* the empty string
ApiIds == {GenerateFeatId(1, 1), GenerateFeatId(1, 1) \o <<"\n">>,
           GenerateFeatId(1, 1000), <<"F", "E", "A", "T">>, <<>>}

\* the features that are registered, and the actions of approve requests
ApiFeats == {GenerateFeatId(1, 1)}

ApiActions == {"approve", "reject", "remove"}

\* main.websocket_logs up to the polling loop: accept, close with code 4000
\* when validate_feature_id fails, else queue = get_log_queue(feat_id)
WebsocketLogs(s, feat_id) ==
    /\ subs[s].pc = "closed"
    /\ IF ~ValidateFeatureId(feat_id)
       THEN /\ ret' = ApiResponse("websocket_logs", feat_id, 4000, "Invalid feature ID", None)
            /\ UNCHANGED <<log_queues, subs>>
       ELSE /\ ret' = ApiResponse("websocket_logs", feat_id, 0, "accepted", None)
            /\ log_queues' = GetLogQueue(feat_id)
            /\ subs' = [subs EXCEPT ![s] = [IdleSub EXCEPT !.pc = "check",
                                                           !.feat_id = feat_id,
                                                           !.since = Len(EventsOf(feat_id))]]
    /\ UNCHANGED <<features, specs, logs, workflows, run, req, extLeft, pubVars,
                   sent, dequeued, pubLeft, counterVars, managerVars, apiVars, queueVars, storeVars>>

\* main.get_workflow_status: 400 for an id validate_feature_id refuses, 404
\* for an unknown feature, else status, current phase, progress and logs
GetWorkflowStatus(feat_id) ==
    /\ ret' = IF ~ValidateFeatureId(feat_id)
              THEN ApiResponse("get_workflow_status", feat_id, 400,
                               "Invalid feature ID format", None)
              ELSE IF feat_id \notin DOMAIN features
              THEN ApiResponse("get_workflow_status", feat_id, 404,
                               "Feature not found", None)
              ELSE ApiResponse("get_workflow_status", feat_id, 200, "",
                               [status        |-> features[feat_id].status,
                                current_phase |-> features[feat_id].current_phase,
                                progress      |-> CalculateProgress(feat_id),
                                logs          |-> LogsOf(feat_id)])
    /\ UNCHANGED <<features, specs, logs, log_queues, workflows, run, req, extLeft,
                   pubVars, otherVars>>

\* main.get_spec for a registered project: 400 for an id validate_feature_id
\* refuses, else the description and the phase specs there are
GetSpec(feat_id) ==
    /\ ret' = IF ~ValidateFeatureId(feat_id)
              THEN ApiResponse("get_spec", feat_id, 400, "Invalid feature ID format", None)
              ELSE ApiResponse("get_spec", feat_id, 200, "",
                               [description |-> IF feat_id \in DOMAIN features
                                                THEN features[feat_id].description
                                                ELSE "",
                                phases      |-> {p \in Phases :
                                                    ReadPhaseSpec(feat_id, p) # None}])
    /\ UNCHANGED <<features, specs, logs, log_queues, workflows, run, req, extLeft,
                   pubVars, otherVars>>

(* --------------------------- specifications ---------------------------- *)

\* the state after startup, given the rows of the feature_counter table
\* and the phase files on disk
InitWith(counter, documents) ==
    /\ now = 0
    /\ feature_counter = counter
    /\ specs = documents
    /\ features = EmptyMap
    /\ logs = EmptyMap
    /\ log_queues = EmptyMap
    /\ workflows = EmptyMap
    /\ run = EmptyMap
    /\ req = None
    /\ extLeft = MaxExt
    /\ today = 1
    /\ conn = [c \in Callers |-> IdleConn]
    /\ db_lock = 0
    /\ returned = [d \in Days |-> <<>>]
    /\ overlapped = FALSE
    /\ callsLeft = MaxCalls
    /\ ret = None
    /\ events = EmptyMap
    /\ queue_seq = EmptyMap
    /\ subs = [s \in Subscribers |-> IdleSub]
    /\ sent = <<>>
    /\ dequeued = EmptyMap
    /\ pubLeft = MaxPublish
    /\ threads = <<>>
    /\ startsLeft = MaxStarts
    /\ storeLeft = MaxStoreCalls
    /\ regLeft = MaxRegCalls
    /\ gen = IdleGen
    /\ ids = <<>>
    /\ idsLeft = MaxGen
    /\ queue_objs = <<>>
    /\ queue_ref = EmptyMap
    /\ parties = [t \in QueueParties |-> IdleParty]

Init == InitWith(EmptyMap, EmptyMap)

\* one feature's workflow and the dashboard's approve/reject requests
Next ==
    \/ \E f \in Feats, auto_approve \in BOOLEAN : StartWorkflow(f, auto_approve)
    \/ \E f \in Feats : Engine(f)
    \/ \E f \in Feats, phase \in Phases, action \in {"approve", "reject"} :
          ApproveRead(f, phase, action)
    \/ ApproveWrite

Spec == Init /\ [][Next]_vars

\* the engine thread keeps running until it returns or dies
FairSpec == Spec /\ \A f \in Feats : WF_vars(Engine(f))

\* one feature's workflow, the dashboard's approve/reject requests, and the
\* status queries and subscriptions that follow the end of the run
NextFinal ==
    \/ Next
    \/ \E f \in Feats : StatusAfterRun(f)
    \/ \E s \in Subscribers, f \in Feats : SubscribeAfterRun(s, f)

SpecFinal == Init /\ [][NextFinal]_vars

\* the workflows of two features, started by two start requests
NextTwo ==
    \/ \E f \in TwoFeats, auto_approve \in BOOLEAN : StartWorkflow(f, auto_approve)
    \/ \E f \in TwoFeats : Engine(f)

SpecTwo == Init /\ [][NextTwo]_vars

\* the engine thread and the websocket handlers of one feature in
\* get_log_queue
NextQueue ==
    \/ \E t \in QueueParties, f \in Feats : GetLogQueueCheck(t, f)
    \/ \E t \in QueueParties, f \in Feats : GetLogQueueCreate(t, f)
    \/ \E t \in QueueParties, f \in Feats : GetLogQueueReturn(t, f)
    \/ \E t \in QueueParties : QueuePut(t)

SpecQueue == Init /\ [][NextQueue]_vars

\* concurrent calls of get_next_feature_number
NextCounter ==
    \/ \E c \in Callers : CounterBegin(c)
    \/ \E c \in Callers : CounterSelect(c)
    \/ \E c \in Callers : CounterWrite(c)
    \/ \E c \in Callers : CounterCommit(c)
    \/ Tick

SpecCounter == Init /\ [][NextCounter]_vars

\* direct calls of the spec store, one after another
NextStore ==
    \/ \E f \in Feats, phase \in StorePhases, content \in StoreContents,
          status \in PhaseStatus,
          dependencies \in {None} \cup {[list |-> d] : d \in StoreDependencies} :
          StoreWrite(f, phase, content, status, dependencies)
    \/ \E f \in Feats, phase \in StoreReadPhases : StoreRead(f, phase)
    \/ \E f \in Feats, phase \in StorePhases, a \in StoreUpdateArgs :
          StoreUpdate(f, phase, a.status, a.comment, a.user)
    \/ ClockTick

SpecStore == Init /\ [][NextStore]_vars

\* publishers and subscribers of the event bus
NextBus ==
    \/ \E f \in Feats, message \in BusMessages, level \in BusLevels :
          BusPublish(f, message, level)
    \/ \E s \in Subscribers, f \in Feats : SubAccept(s, f)
    \/ \E s \in Subscribers : SubCheck(s)
    \/ \E s \in Subscribers : SubGet(s)
    \/ \E s \in Subscribers : SubSend(s)
    \/ \E s \in Subscribers : SubSendRaise(s)

SpecBus == Init /\ [][NextBus]_vars

\* publishers and subscribers whose clients stay connected: no send raises
NextBusConnected ==
    \/ \E f \in Feats, message \in BusMessages, level \in BusLevels :
          BusPublish(f, message, level)
    \/ \E s \in Subscribers, f \in Feats : SubAccept(s, f)
    \/ \E s \in Subscribers : SubCheck(s)
    \/ \E s \in Subscribers : SubGet(s)
    \/ \E s \in Subscribers : SubSend(s)

\* every handler keeps polling: its loop is never suspended for ever
FairSpecBus ==
    /\ Init
    /\ [][NextBusConnected]_vars
    /\ \A s \in Subscribers :
          WF_vars(SubCheck(s)) /\ WF_vars(SubGet(s)) /\ WF_vars(SubSend(s))

\* callers of the workflow manager and the threads it started
NextManager ==
    \/ \E f \in ManagerFeats, auto_approve \in BOOLEAN : ManagerStart(f, auto_approve)
    \/ \E i \in DOMAIN threads : ThreadExit(i)

SpecManager == Init /\ [][NextManager]_vars

\* direct calls of the feature registry, one after another
NextRegistry ==
    \/ \E f \in RegistryFeats, description \in RegistryDescriptions :
          RegCreate(f, description)
    \/ \E f \in RegistryFeats, status \in PhaseStatus, phase \in Phases \cup {NoPhase} :
          RegUpdate(f, status, phase)

SpecRegistry == Init /\ [][NextRegistry]_vars

\* calls of validate_feature_id
NextValidate == \E feat_id \in IdInputs : ValidateId(feat_id)

SpecValidate == Init /\ [][NextValidate]_vars

\* the counters of the first day the feature_counter table starts with: no
\* row, or the row left by that many earlier calls
InitCounters == {9, 99, 999}

InitIds ==
    \E counter \in {EmptyMap} \cup
                    {Put(EmptyMap, 1, [counter |-> n]) : n \in InitCounters} :
        InitWith(counter, EmptyMap)

\* calls of generate_feat_id, one after another, and the clock
NextIds ==
    \/ GenDate
    \/ GenNumber
    \/ Tick

SpecIds == InitIds /\ [][NextIds]_vars

\* every combination of phase files a feature can have
InitProgress ==
    \E statuses \in [Phases -> PhaseStatus \cup {"missing"}] :
        InitWith(EmptyMap, DocumentsOf("FEAT-001", statuses))

\* calls of calculate_progress
NextProgress == \E f \in Feats : CalcProgress(f)

SpecProgress == InitProgress /\ [][NextProgress]_vars

\* requests to the endpoints that take a feature id, and approve requests
NextApi ==
    \/ \E f \in ApiFeats, description \in RegistryDescriptions : RegCreate(f, description)
    \/ \E feat_id \in ApiIds : GetWorkflowStatus(feat_id)
    \/ \E feat_id \in ApiIds : GetSpec(feat_id)
    \/ \E s \in Subscribers, feat_id \in ApiIds : WebsocketLogs(s, feat_id)
    \/ \E f \in ApiFeats, phase \in Phases, action \in ApiActions :
          ApproveRead(f, phase, action)

SpecApi == Init /\ [][NextApi]_vars

(* ------------------------------- claims -------------------------------- *)

\* the spec documents of feature f that exist
SpecPhases(f) == {p \in Phases : <<f, p>> \in DOMAIN specs}

\* no approve/reject request has been sent
NoExternalAction == extLeft = MaxExt /\ req = None

\* the run of f returned, nothing raised in it, and the dashboard was silent
CleanRun(f, auto_approve) ==
    /\ f \in DOMAIN run
    /\ run[f].auto_approve = auto_approve
    /\ run[f].pc = "returned"
    /\ run[f].nfaults = 0
    /\ NoExternalAction

\* run_workflow of f returned, or an exception ended its thread
RunEnded(f) == f \in DOMAIN run /\ run[f].pc \in EndPcs

\* C1: an auto-approve run in which nothing raises (and no approve/reject
\* request interferes) terminates; when it has returned the feature is
\* Completed at phase Review and all six spec documents exist with status
\* Completed.  A run ends outside run_workflow's return only after a raise.
C1_AutoRunCompletes ==
    /\ \A f \in Feats : (f \in DOMAIN run /\ run[f].auto_approve) ~> RunEnded(f)
    /\ [](\A f \in Feats :
            /\ (f \in DOMAIN run /\ run[f].pc = "crashed") => run[f].nfaults > 0
            /\ CleanRun(f, TRUE) =>
                  /\ features[f].status = COMPLETED /\ features[f].current_phase = REVIEW
                  /\ SpecPhases(f) = Phases
                  /\ \A p \in Phases : specs[<<f, p>>].status = COMPLETED)

C1_Witness == \E f \in Feats : CleanRun(f, TRUE) /\ features[f].status = COMPLETED

\* C2 as claimed: after a clean auto-approve run every spec document has
\* exactly one approval record, authored by "system".
C2_OneApprovalRecord ==
    \A f \in Feats : CleanRun(f, TRUE) =>
        \A p \in Phases :
            /\ Len(specs[<<f, p>>].approvals) = 1
            /\ specs[<<f, p>>].approvals[1].user = "system"

\* C2 amended: after a clean auto-approve run every spec document has exactly
\* two approval records, both authored by "system": the "Auto-generated"
\* record of write_phase_spec, then the "Auto-approved" record of
\* update_phase_status.
C2_TwoApprovalRecords ==
    \A f \in Feats : CleanRun(f, TRUE) =>
        \A p \in Phases :
            specs[<<f, p>>].approvals =
                <<[user |-> "system", comment |-> "Auto-generated"],
                  [user |-> "system", comment |-> "Auto-approved"]>>

C2_Witness ==
    \E f \in Feats : CleanRun(f, TRUE) /\ Len(specs[<<f, REVIEW>>].approvals) = 2

\* C3: when a clean run without auto-approve has returned, exactly one spec
\* document exists, that of Requirements with status PendingApproval.
C3_ManualRunStopsAfterRequirements ==
    \A f \in Feats : CleanRun(f, FALSE) =>
        /\ SpecPhases(f) = {REQUIREMENTS}
        /\ specs[<<f, REQUIREMENTS>>].status = PENDING_APPROVAL

\* C4: a run without auto-approve is about to invoke the executor for a
\* phase after Requirements only when the previous phase's spec document has
\* status Approved or Completed.
C4_ApprovalGate ==
    \A f \in Feats :
        (f \in DOMAIN run /\ ~run[f].auto_approve /\ run[f].pc = "kickoff" /\ run[f].phase > 1) =>
            /\ <<f, run[f].phase - 1>> \in DOMAIN specs
            /\ specs[<<f, run[f].phase - 1>>].status \in {APPROVED, COMPLETED}

Range(s) == {s[i] : i \in DOMAIN s}

\* C5: the numbers get_next_feature_number returned for one day are pairwise
\* distinct and consecutive, however the calls interleave.
C5_CounterAtomic ==
    \A d \in Days :
        /\ Cardinality(Range(returned[d])) = Len(returned[d])
        /\ \A n \in Range(returned[d]) :
              n = 1 \/ (n - 1) \in Range(returned[d])

\* C6: while the calls have come one after another, the k-th call of a day
\* returned k, and the day's persisted counter is the last number returned
\* (no row before the first call).
C6_SequentialCounter ==
    ~overlapped =>
        \A d \in Days :
            /\ returned[d] = [k \in 1..Len(returned[d]) |-> k]
            /\ IF returned[d] = <<>> THEN d \notin DOMAIN feature_counter
               ELSE /\ d \in DOMAIN feature_counter
                    /\ feature_counter[d].counter = returned[d][Len(returned[d])]

C6_Witness == ~overlapped /\ returned[1] = <<1, 2, 3>> /\ feature_counter[1].counter = 3

\* C7: no step changes a feature's current phase in the registry to an
\* earlier phase.
C7_PhaseOnlyForward ==
    [][\A f \in Feats :
          (f \in DOMAIN features /\ f \in DOMAIN features') =>
              features'[f].current_phase >= features[f].current_phase]_vars

C7_Witness ==
    \E f \in Feats :
        /\ f \in DOMAIN features
        /\ features[f].status = REJECTED /\ features[f].current_phase = REVIEW

\* C8: once an operation inside run_workflow's try block has raised, the run
\* is in the except block or has ended, no executor invocation follows (no
\* later phase, no retry); with that one failure the run returns, and when it
\* has returned the feature is Rejected with the current phase it had when
\* the exception was raised.
C8_FailureAborts ==
    \A f \in Feats :
        (f \in DOMAIN run /\ run[f].error # None /\ run[f].error.at \in TryPcs) =>
            /\ run[f].pc \in ExceptPcs \cup EndPcs
            /\ run[f].kicks = run[f].error.kicks
            /\ \A p \in Phases : run[f].kicks[p] <= 1
            /\ run[f].nfaults = 1 => run[f].pc # "crashed"
            /\ run[f].pc = "returned" =>
                  /\ features[f].status = REJECTED
                  /\ features[f].current_phase = run[f].error.feature.current_phase

C8_Witness ==
    \E f \in Feats :
        /\ f \in DOMAIN run
        /\ run[f].pc = "returned"
        /\ run[f].error # None
        /\ run[f].error.at = "kickoff"
        /\ run[f].error.phase = 3
        /\ features[f].status = REJECTED /\ features[f].current_phase = 2

\* C9: the step that raises and the steps of the except block leave every
\* spec document as it is; in the registry they change nothing but the
\* feature's status, to Rejected.
C9_AbortKeepsSpecs ==
    [][\A f \in Feats :
          (f \in DOMAIN run /\ run'[f] # run[f] /\ run'[f].error # None) =>
              /\ specs' = specs
              /\ \/ features' = features
                 \/ features' = [features EXCEPT ![f].status = REJECTED]]_vars

C9_Witness ==
    \E f \in Feats :
        /\ f \in DOMAIN run
        /\ run[f].pc = "returned"
        /\ run[f].error # None
        /\ run[f].error.phase = 3
        /\ features[f].status = REJECTED
        /\ SpecPhases(f) = {1, 2}

\* C10: whenever a feature's registry status is Rejected, the error-level
\* entry carrying the error message is in the durable log of the feature and
\* on its event queue.
C10_RejectedIsLogged ==
    \A f \in Feats :
        (f \in DOMAIN features /\ features[f].status = REJECTED) =>
            LET e == Entry(Msg("Workflow error", run[f].error.phase, run[f].error.at), "error") IN
            /\ BagIn(e, LogsOf(f))
            /\ f \in DOMAIN log_queues
            /\ e \in Range(log_queues[f])

C10_Witness ==
    \E f \in Feats :
        /\ f \in DOMAIN features
        /\ features[f].status = REJECTED
        /\ run[f].error.at = "write_spec"

\* C11: the events of one feature are delivered in publish order: the events
\* sent to any one subscriber are sent in the order they were published, the
\* events leave the feature's queue in the order they were published, and
\* what is sent is the event published under that number.
C11_PublishOrder ==
    /\ \A i, j \in DOMAIN sent :
          (i < j /\ sent[i].sub = sent[j].sub /\ sent[i].feat_id = sent[j].feat_id) =>
              sent[i].seq < sent[j].seq
    /\ \A f \in DOMAIN dequeued : \A i, j \in DOMAIN dequeued[f] :
          i < j => dequeued[f][i] < dequeued[f][j]
    /\ \A i \in DOMAIN sent : sent[i].event = events[sent[i].feat_id][sent[i].seq]

C11_Witness ==
    /\ Len(sent) = 2
    /\ sent[1].sub = sent[2].sub
    /\ sent[1].event # sent[2].event
    /\ \E s \in Subscribers : s # sent[1].sub /\ subs[s].pc = "check"

\* C12: no published event is sent twice, neither to one subscriber nor to
\* two, with the subscribers' empty() checks and get_nowait() calls
\* interleaved in any way.
C12_AtMostOnce ==
    \A i, j \in DOMAIN sent :
        (i # j /\ sent[i].feat_id = sent[j].feat_id) => sent[i].seq # sent[j].seq

C12_Witness ==
    /\ Len(sent) = MaxPublish
    /\ \E i, j \in DOMAIN sent : sent[i].sub # sent[j].sub
    /\ \E s \in Subscribers : subs[s].pc = "get" /\ log_queues[subs[s].feat_id] = <<>>

\* C13: no subscriber is sent an event that was published before its
\* subscription began.
C13_NoReplay ==
    \A i \in DOMAIN sent : sent[i].seq > subs[sent[i].sub].since

\* the threads started for feature f whose run has not ended
ActiveRuns(f) == {i \in DOMAIN threads : threads[i].feat_id = f /\ threads[i].alive}

\* C14: at no time are two engine runs of one feature executing, also when
\* start is called again for a feature whose run is still in progress.
C14_AtMostOneActiveRun ==
    \A f \in ManagerFeats : Cardinality(ActiveRuns(f)) <= 1

C16_UpdateMissingSpecFails ==
    [][extLeft' < extLeft =>
          IF req' = None
          THEN /\ ret'.status_code = 404
               /\ ret'.feat_id \in DOMAIN features =>
                      /\ ret'.detail = "Phase spec not found"
                      /\ <<ret'.feat_id, ret'.phase>> \notin DOMAIN specs'
               /\ specs' = specs
               /\ features' = features
               /\ logs' = logs
               /\ log_queues' = log_queues
          ELSE <<req'.feat_id, req'.phase>> \in DOMAIN specs]_vars

C16_Witness ==
    /\ ret # None
    /\ ret.status_code = 404
    /\ ret.detail = "Phase spec not found"
    /\ ret.phase = 3
    /\ SpecPhases(ret.feat_id) = {1, 2}

\* C17: one update_phase_status call on an existing spec document sets the
\* status to the new value and appends exactly one approval record, that of
\* the call, at the end of the history; content, dependency list, creation
\* timestamp and the earlier records stay as they were.  Approving a freshly
\* written PendingApproval document gives status Approved and two records.
C17_UpdateStatusFrame ==
    [][(storeLeft' < storeLeft /\ ret'.op = "update_phase_status"
          /\ ret'.key \in DOMAIN specs) =>
          LET old == specs[ret'.key]
              new == specs'[ret'.key] IN
          /\ new.status = ret'.status
          /\ new.approvals = Append(old.approvals,
                                    [user |-> ret'.user, comment |-> ret'.comment])
          /\ new.content = old.content
          /\ new.dependencies = old.dependencies
          /\ new.created_at = old.created_at
          /\ ret'.result = ParseSpec(new)
          /\ (old.status = PENDING_APPROVAL /\ Len(old.approvals) = 1
                 /\ ret'.status = APPROVED) =>
                 (new.status = APPROVED /\ Len(new.approvals) = 2)]_vars

C17_Witness ==
    /\ ret # None
    /\ ret.op = "update_phase_status"
    /\ ret.status = APPROVED
    /\ ret.previous # None
    /\ ret.previous.status = PENDING_APPROVAL
    /\ Len(ret.previous.approvals) = 1
    /\ ret.previous.dependencies # <<>>
    /\ specs[ret.key].status = APPROVED
    /\ Len(specs[ret.key].approvals) = 2
    /\ specs[ret.key].updated_at # specs[ret.key].created_at

\* s is an initial part of t
IsPrefix(s, t) == Len(s) <= Len(t) /\ SubSeq(t, 1, Len(s)) = s

\* the step is the engine's write_phase_spec of document k
IsWriteSpecOf(k) ==
    /\ k[1] \in DOMAIN run
    /\ run[k[1]].pc = "write_spec"
    /\ run[k[1]].phase = k[2]
    /\ run'[k[1]].pc = "wrote_log"

\* C18: but for write_phase_spec, every step leaves the approval history of
\* every spec document an initial part of the history after the step,
\* however the update_phase_status calls of the engine's auto-approve and of
\* approve/reject requests interleave.
C18_ApprovalsAppendOnly ==
    [][\A k \in DOMAIN specs :
          (k \in DOMAIN specs' /\ ~IsWriteSpecOf(k)) =>
              IsPrefix(specs[k].approvals, specs'[k].approvals)]_vars

\* C19: when write_phase_spec returns, the phase document holds the given
\* content, status and dependencies (none given: the empty list), its
\* approval history is the one synthetic record of "system" whatever the
\* history of the document overwritten, and its created and updated
\* timestamps are equal; the SpecPhase returned is that document.
C19_WriteSpecOverwrites ==
    [][(storeLeft' < storeLeft /\ ret'.op = "write_phase_spec") =>
          LET doc == specs'[ret'.key] IN
          /\ doc.content = ret'.content
          /\ doc.status = ret'.status
          /\ doc.dependencies = IF ret'.dependencies = None THEN <<>>
                                ELSE ret'.dependencies.list
          /\ Len(doc.approvals) = 1
          /\ doc.approvals[1].user = "system"
          /\ doc.created_at = doc.updated_at
          /\ ParseSpec(doc) = ret'.result]_vars

C19_Witness ==
    /\ ret # None
    /\ ret.op = "write_phase_spec"
    /\ ret.previous # None
    /\ Len(ret.previous.approvals) = 2
    /\ ret.previous.content # ret.content
    /\ ret.previous.created_at # specs[ret.key].created_at
    /\ Len(specs[ret.key].approvals) = 1

IsEngineStatusUpdate(f) ==
    /\ f \in DOMAIN run
    /\ run[f].pc \in {"mark_in_progress", "update_feature", "final_status", "except_status"}
    /\ run'[f].pc # run[f].pc
    /\ run'[f].nfaults = run[f].nfaults

\* the step is the write of an approve/reject request
IsApproveWrite == req # None /\ req' = None

\* C21: a reject request sets the phase's spec status to Rejected, and the
\* status update the engine performs on a feature one of whose phases is
\* Rejected leaves the feature's registry status Rejected.
C21_RejectPropagates ==
    [][/\ (IsApproveWrite /\ req.action = "reject") =>
             specs'[<<req.feat_id, req.phase>>].status = REJECTED
       /\ \A f \in Feats :
             (/\ IsEngineStatusUpdate(f)
              /\ \E p \in SpecPhases(f) : specs[<<f, p>>].status = REJECTED) =>
                 features'[f].status = REJECTED]_vars

\* C22: once a phase spec's status is Rejected no step changes it.
C22_RejectedIsTerminal ==
    [][\A k \in DOMAIN specs :
          specs[k].status = REJECTED =>
              (k \in DOMAIN specs' /\ specs'[k].status = REJECTED)]_vars

\* C23: the steps of an approve/reject request leave the features table, the
\* event queues, the running markers and the engine runs as they are, create
\* no spec document and change no document but the targeted one, in which
\* only the status, the approval history and the update time change.
C23_ApprovalFrame ==
    [][(req' # req \/ extLeft' # extLeft) =>
          /\ features' = features
          /\ log_queues' = log_queues
          /\ workflows' = workflows
          /\ run' = run
          /\ DOMAIN specs' = DOMAIN specs
          /\ \A k \in DOMAIN specs :
                IF IsApproveWrite /\ k = <<req.feat_id, req.phase>>
                THEN /\ specs'[k].content = specs[k].content
                     /\ specs'[k].dependencies = specs[k].dependencies
                     /\ specs'[k].created_at = specs[k].created_at
                ELSE specs'[k] = specs[k]]_vars

C23_Witness ==
    \E f \in Feats :
        /\ ret # None
        /\ ret.status_code = 200
        /\ ret.feat_id = f
        /\ ret.phase = REQUIREMENTS
        /\ specs[<<f, REQUIREMENTS>>].status = APPROVED
        /\ run[f].pc = "wrote_log"
        /\ run[f].phase = REQUIREMENTS
        /\ features[f].status = IN_PROGRESS
        /\ SpecPhases(f) = {REQUIREMENTS}

\* C24: create_feature stores the new row with status Draft and current
\* phase Requirements; for a feature_id that is already in the table it
\* raises the duplicate error and leaves the table as it was.
C24_CreateFeature ==
    (ret # None /\ ret.op = "create_feature") =>
        IF ret.feature_id \in DOMAIN ret.previous
        THEN /\ ret.raised = "IntegrityError"
             /\ features = ret.previous
        ELSE /\ ret.raised = ""
             /\ features[ret.feature_id] =
                    [description |-> ret.args, status |-> DRAFT,
                     current_phase |-> REQUIREMENTS]
             /\ \A g \in DOMAIN ret.previous : features[g] = ret.previous[g]

C24_Witness ==
    /\ ret # None
    /\ ret.op = "create_feature"
    /\ ret.raised = "IntegrityError"
    /\ ret.args = "Add logout"
    /\ features[ret.feature_id] =
           [description |-> "Add login", status |-> IN_PROGRESS, current_phase |-> 2]

\* C25: update_feature_status with a phase sets status and current phase,
\* without a phase sets the status and keeps the current phase, and for a
\* feature_id that is not in the table returns false and changes nothing.
C25_UpdateStatus ==
    (ret # None /\ ret.op = "update_feature_status") =>
        LET f == ret.feature_id
            previous == ret.previous
        IN  IF f \notin DOMAIN previous
            THEN ret.result = FALSE /\ features = previous
            ELSE /\ DOMAIN features = DOMAIN previous
                 /\ features[f].status = ret.args.status
                 /\ features[f].current_phase =
                        IF ret.args.phase # NoPhase THEN ret.args.phase
                        ELSE previous[f].current_phase
                 /\ features[f].description = previous[f].description
                 /\ \A g \in DOMAIN previous \ {f} : features[g] = previous[g]

C25_Witness ==
    /\ ret # None
    /\ ret.op = "update_feature_status"
    /\ ret.args.phase = NoPhase
    /\ ret.feature_id \in DOMAIN ret.previous
    /\ ret.previous[ret.feature_id].current_phase = 3
    /\ features[ret.feature_id].current_phase = 3
    /\ features[ret.feature_id].status = COMPLETED

\* "FEAT-", eight digits, "-", three digits and nothing else
IsFeatIdText(text) ==
    /\ Len(text) = 17
    /\ SubSeq(text, 1, 5) = <<"F", "E", "A", "T", "-">>
    /\ \A i \in 6..13 : IsDigit(text[i])
    /\ text[14] = "-"
    /\ \A i \in 15..17 : IsDigit(text[i])

\* C26: validate_feature_id returns true for exactly the strings made of
\* "FEAT-", eight digits, "-" and three digits.
C26_ValidateExactly ==
    (ret # None /\ ret.op = "validate_feature_id") =>
        (ret.result <=> IsFeatIdText(ret.feat_id))

\* C27: every identifier generate_feat_id returned has 17 characters, ends
\* with three digits and is accepted by validate_feature_id.
C27_GeneratedIdFormat ==
    \A i \in DOMAIN ids :
        /\ Len(ids[i]) = 17
        /\ \A k \in 15..17 : ids[i][k] \in AsciiDigits
        /\ ValidateFeatureId(ids[i])

\* C28: no two calls of generate_feat_id returned the same identifier.
C28_GeneratedIdsUnique ==
    \A i, j \in DOMAIN ids : i # j => ids[i] # ids[j]

\* the phases of f whose spec document has the given status
PhasesWithStatus(f, status) ==
    {p \in SpecPhases(f) : specs[<<f, p>>].status = status}

\* C29: calculate_progress is (the number of Completed phases + 0.75 times
\* the Approved ones + 0.5 times the InProgress ones) / 6, lies between 0
\* and 1, and is 2.75/6 for Completed, Completed, Approved, Draft, Draft, Draft.
C29_Progress ==
    (ret # None /\ ret.op = "calculate_progress") =>
        LET f == ret.feat_id
            progress == ret.result
        IN  /\ progress.den = 4 * 6
            /\ progress.num = 4 * Cardinality(PhasesWithStatus(f, COMPLETED))
                               + 3 * Cardinality(PhasesWithStatus(f, APPROVED))
                               + 2 * Cardinality(PhasesWithStatus(f, IN_PROGRESS))
            /\ 0 <= progress.num
            /\ progress.num <= progress.den
            /\ (/\ PhasesWithStatus(f, COMPLETED) = {1, 2}
                /\ PhasesWithStatus(f, APPROVED) = {3}
                /\ PhasesWithStatus(f, DRAFT) = {4, 5, 6}) =>
                  4 * 6 * progress.num = 11 * progress.den

C29_Witness ==
    /\ ret # None
    /\ ret.op = "calculate_progress"
    /\ PhasesWithStatus(ret.feat_id, COMPLETED) = {1, 2}
    /\ PhasesWithStatus(ret.feat_id, APPROVED) = {3}
    /\ PhasesWithStatus(ret.feat_id, DRAFT) = {4, 5, 6}
    /\ ret.result = [num |-> 11, den |-> 24]

\* the tables, files and queues C30 speaks of
persistentVars == <<features, specs, logs, feature_counter, log_queues>>

\* C30: a request to the status, spec or live-log endpoint whose feature id
\* is not "FEAT-", eight digits, "-", three digits, and an approve request
\* whose action is neither approve nor reject, leave the features table, the
\* spec files, the logs table, the feature counter and the map of event
\* queues unchanged.
C30_ErrorsNoSideEffects ==
    [][(\/ \E feat_id \in {i \in ApiIds : ~IsFeatIdText(i)} :
             \/ GetWorkflowStatus(feat_id)
             \/ GetSpec(feat_id)
             \/ \E s \in Subscribers : WebsocketLogs(s, feat_id)
        \/ \E f \in ApiFeats, phase \in Phases, action \in ApiActions \ {"approve", "reject"} :
             ApproveRead(f, phase, action))
       => UNCHANGED persistentVars]_vars

\* the same for the requests the code detects as erroneous
C30_DetectedErrorsNoSideEffects ==
    [][(\/ \E feat_id \in {i \in ApiIds : ~ValidateFeatureId(i)} :
             \/ GetWorkflowStatus(feat_id)
             \/ GetSpec(feat_id)
             \/ \E s \in Subscribers : WebsocketLogs(s, feat_id)
        \/ \E f \in ApiFeats, phase \in Phases, action \in ApiActions \ {"approve", "reject"} :
             ApproveRead(f, phase, action))
       => UNCHANGED persistentVars]_vars

\* C32: when the engine invokes the executor of phase P the features table
\* records status InProgress and current phase P for the feature.
C32_RegistryBeforeExecutor ==
    \A f \in Feats :
        (f \in DOMAIN run /\ run[f].pc = "kickoff") =>
            /\ features[f].status = IN_PROGRESS
            /\ features[f].current_phase = run[f].phase

\* the phases of the events published for f, in publish order, without the
\* events that belong to no phase
EventPhases(f) ==
    SelectSeq([i \in DOMAIN EventsOf(f) |-> EventsOf(f)[i].message.phase],
              LAMBDA p : p # 0)

\* C33: the spec documents of a feature are those of an initial part of the
\* phase order, the executor of a phase has been invoked only if the specs of
\* all earlier phases exist, and the events of a phase are published before
\* the events of every later phase.
C33_StrictPhaseOrder ==
    \A f \in Feats :
        /\ SpecPhases(f) = 1..Cardinality(SpecPhases(f))
        /\ f \in DOMAIN run =>
              \A p \in Phases : run[f].kicks[p] > 0 => (1..(p - 1)) \subseteq SpecPhases(f)
        /\ \A i, j \in DOMAIN EventPhases(f) :
              i < j => EventPhases(f)[i] <= EventPhases(f)[j]

C33_Witness ==
    \E f \in Feats :
        /\ f \in DOMAIN run
        /\ run[f].pc = "returned"
        /\ SpecPhases(f) = Phases
        /\ \A p \in Phases : run[f].kicks[p] = 1
        /\ \A p \in Phases : \E i \in DOMAIN EventPhases(f) : EventPhases(f)[i] = p

\* C35: if the current phase of a feature in the features table is a phase
\* P after Requirements, the spec document of P exists; a spec document
\* exists at most for the phase after the current one.
C35_SpecBeforeRegistry ==
    \A f \in DOMAIN features :
        /\ features[f].current_phase > REQUIREMENTS =>
              features[f].current_phase \in SpecPhases(f)
        /\ SpecPhases(f) \subseteq 1..(features[f].current_phase + 1)

C35_Witness ==
    \E f \in Feats :
        /\ f \in DOMAIN run
        /\ run[f].pc = "crashed"
        /\ features[f].current_phase = 2
        /\ SpecPhases(f) = {1, 2, 3}

\* C36: if the status of a feature in the features table is Completed or
\* PendingApproval, the spec documents of all six phases exist and the
\* current phase is Review.
C36_FinalStatusAfterReview ==
    \A f \in DOMAIN features :
        features[f].status \in {COMPLETED, PENDING_APPROVAL} =>
            /\ SpecPhases(f) = Phases
            /\ features[f].current_phase = REVIEW

C36_Witness ==
    \E f \in Feats :
        /\ f \in DOMAIN features
        /\ features[f].status = PENDING_APPROVAL
        /\ features[f].current_phase = REVIEW
        /\ SpecPhases(f) = Phases
        /\ run[f].pc = "complete_log"

\* C37: when the thread of a run has ended the status of the feature is
\* Completed, PendingApproval or Rejected.
C37_RunEndsInFinalStatus ==
    \A f \in Feats :
        RunEnded(f) => features[f].status \in {COMPLETED, PENDING_APPROVAL, REJECTED}

\* C38: the events published for a feature are, as a multiset of (message,
\* level), contained in the feature's rows of the logs table.
C38_EventsAreLogged ==
    \A f \in DOMAIN events :
        \A e \in Range(events[f]) :
            Cardinality({i \in DOMAIN events[f] : events[f][i] = e})
                <= CopiesIn(e, LogsOf(f))

C38_Witness ==
    \E f \in Feats :
        /\ Len(EventsOf(f)) >= 3
        /\ \E i \in DOMAIN EventsOf(f) : EventsOf(f)[i].level = "error"
        /\ BagCardinality(LogsOf(f)) > Len(EventsOf(f))

\* C40: once the run of a feature has ended with the feature Completed,
\* PendingApproval or Rejected, no step (approve or reject request, status
\* query, subscription) changes the feature's row in the features table.
C40_FinalStateStable ==
    [][\A f \in Feats :
          (/\ RunEnded(f)
           /\ features[f].status \in {COMPLETED, PENDING_APPROVAL, REJECTED}) =>
              features'[f] = features[f]]_vars

C40_Witness ==
    \E f \in Feats :
        /\ RunEnded(f)
        /\ features[f].status = PENDING_APPROVAL
        /\ ret # None
        /\ ret.op = "get_status"
        /\ ret.status = PENDING_APPROVAL
        /\ extLeft = 0
        /\ specs[<<f, REVIEW>>].status = REJECTED
        /\ \A s \in Subscribers : subs[s].pc = "check" /\ subs[s].feat_id = f

\* key k has the same entry, or none, in the maps m1 and m2
SameAt(m1, m2, k) ==
    /\ k \in DOMAIN m1 <=> k \in DOMAIN m2
    /\ k \in DOMAIN m1 => m1[k] = m2[k]

\* the runs r1 and r2 ended in the same way after the same outcomes of
\* their own operations
SameOutcomes(r1, r2) ==
    /\ r1.auto_approve = r2.auto_approve
    /\ r1.pc = r2.pc
    /\ r1.nfaults = r2.nfaults
    /\ r1.kicks = r2.kicks
    /\ (r1.error = None) = (r2.error = None)
    /\ r1.error # None => (r1.error.at = r2.error.at /\ r1.error.phase = r2.error.phase)

SentTo(s, f, n) ==
    \E i \in DOMAIN sent : sent[i].sub = s /\ sent[i].feat_id = f /\ sent[i].seq = n

\* C39: every event published for a feature after a subscriber obtained the
\* feature's queue is eventually sent to that subscriber.
C39_EveryEventReachesSubscriber ==
    \A s \in Subscribers, f \in Feats, n \in 1..MaxPublish :
        [](( /\ subs[s].pc # "closed"
             /\ subs[s].feat_id = f
             /\ subs[s].since < n
             /\ Len(EventsOf(f)) >= n ) => <>SentTo(s, f, n))

\* every event published while some subscriber holds the queue is eventually
\* sent to one of the subscribers
C39_EveryEventReachesSomeSubscriber ==
    \A f \in Feats, n \in 1..MaxPublish :
        [](( /\ \E s \in Subscribers : subs[s].pc # "closed" /\ subs[s].feat_id = f
             /\ Len(EventsOf(f)) >= n ) => <>(\E s \in Subscribers : SentTo(s, f, n)))

====
